---- MODULE Spec2Model ----
(***************************************************************************)
(* Reversible pseudonymization of documents (privy_cli): entity selection, *)
(* cross-run span splicing, placeholder assignment, restoration and the    *)
(* encrypted mapping store.  Texts are strings; offsets are 0-based and    *)
(* half-open as in the Python source; confidences are integer percents.    *)
(***************************************************************************)
EXTENDS Integers, Sequences, FiniteSets, TLC

VARIABLES
    \* anonymize_docx followed by deanonymize_docx on one document
    pc,             \* position in the two calls
    input_doc,      \* the document at input_path: paragraphs of runs
    req_types,      \* the entity_types argument
    min_confidence, \* the min_confidence argument
    doc,            \* the Document in memory
    para,           \* index of the next paragraph of the loop
    normalized_entity_types, \* the validated entity types
    mapping,        \* MappingData of the anonymize run
    reverse_index,  \* (label, original) -> placeholder id
    counters,       \* per-label counter
    raw,            \* raw_entities of the current paragraph
    output_file,    \* the anonymized document at output_path
    map_file,       \* the mapping at map_path
    restored_file,  \* the restored document
    loaded,         \* the mapping deanonymize_docx read
    history,        \* per processed paragraph: text, entities, replacements
    \* _select_entities exercised on its own
    sel_entities, sel_types, sel_min, sel_result, sel_replacements, sel_again, sel_pc,
    \* apply_replacements_to_paragraph exercised on its own
    sp_runs, sp_reps, sp_after, sp_changed, sp_pc,
    \* the encrypted mapping store exercised on its own
    st_file, st_written, st_result, st_pc,
    \* _placeholder_replacements exercised on its own
    sc_words, sc_placeholders, sc_result, sc_pc,
    \* CommandDetector.detect exercised on its own
    dt_text, dt_entities_raw, dt_result, dt_pc

pipeVars == <<pc, input_doc, req_types, min_confidence, doc, para,
              normalized_entity_types,
              mapping, reverse_index, counters, raw, output_file, map_file,
              restored_file, loaded, history>>
selVars == <<sel_entities, sel_types, sel_min, sel_result, sel_replacements,
             sel_again, sel_pc>>
spVars == <<sp_runs, sp_reps, sp_after, sp_changed, sp_pc>>
stVars == <<st_file, st_written, st_result, st_pc>>
scVars == <<sc_words, sc_placeholders, sc_result, sc_pc>>
dtVars == <<dt_text, dt_entities_raw, dt_result, dt_pc>>
vars == <<pipeVars, selVars, spVars, stVars, scVars, dtVars>>

-----------------------------------------------------------------------------
(* Bounds of the model *)

\* largest character offset of a candidate span handed to _select_entities
MaxOffset == 3
\* longest candidate list handed to _select_entities
MaxCandidates == 3
\* most runs of a paragraph handed to apply_replacements_to_paragraph
MaxRuns == 3
\* longest replacement list handed to apply_replacements_to_paragraph
MaxReps == 2
\* most paragraphs of a document
MaxParas == 2
\* most words of a paragraph of a document
MaxWords == 2
\* longest list a detector returns for one paragraph
MaxDetected == 2
\* most items of a mapping handed to the store
MaxItems == 2
\* most words of a whole document
MaxDocWords == 3
MaxScanWords == 3
MaxAssignments == 3
MaxBackendItems == 2

-----------------------------------------------------------------------------
(* Python built-ins on str and list *)

Min(a, b) == IF a < b THEN a ELSE b
Max(a, b) == IF a > b THEN a ELSE b

\* s[a:b] for 0 <= a, 0 <= b: both ends are clamped to len(s)
Slice(s, a, b) ==
    IF a >= Min(b, Len(s)) THEN "" ELSE SubSeq(s, a + 1, Min(b, Len(s)))

\* s[a:]
SliceFrom(s, a) == Slice(s, a, Len(s))

LowerCase == "abcdefghijklmnopqrstuvwxyz"
UpperCase == "ABCDEFGHIJKLMNOPQRSTUVWXYZ"

UpperChar(c) ==
    LET at == {i \in 1..Len(LowerCase) : SubSeq(LowerCase, i, i) = c}
    IN IF at = {} THEN c
       ELSE LET i == CHOOSE i \in at : TRUE IN SubSeq(UpperCase, i, i)

\* str.upper()
RECURSIVE upper(_)
upper(s) ==
    IF s = "" THEN "" ELSE UpperChar(SubSeq(s, 1, 1)) \o upper(SliceFrom(s, 1))

IsSpace(c) == c \in {" ", "\t", "\n"}

\* str.strip()
RECURSIVE strip(_)
strip(s) ==
    IF s = "" THEN ""
    ELSE IF IsSpace(SubSeq(s, 1, 1)) THEN strip(SliceFrom(s, 1))
    ELSE IF IsSpace(SubSeq(s, Len(s), Len(s))) THEN strip(Slice(s, 0, Len(s) - 1))
    ELSE s

\* str.startswith(prefix)
startswith(s, prefix) == Len(s) >= Len(prefix) /\ Slice(s, 0, Len(prefix)) = prefix

\* str.find(sub, start): lowest index >= start where sub occurs, else -1
find(s, sub, start) ==
    LET hits == {i \in start..(Len(s) - Len(sub)) : Slice(s, i, i + Len(sub)) = sub}
    IN IF hits = {} THEN -1 ELSE CHOOSE i \in hits : \A j \in hits : i <= j

\* tuple comparison k1 < k2 of two integer tuples of one length
LexLess(k1, k2) ==
    \E i \in 1..Len(k1) : k1[i] < k2[i] /\ \A j \in 1..(i - 1) : k1[j] = k2[j]

\* sorted(seq, key=...): ascending by key, stable (equal keys keep their order);
\* keys[i] is the key of seq[i]
sorted(seq, keys) ==
    LET n == Len(seq)
        Before(i, j) == \/ LexLess(keys[i], keys[j])
                        \/ (keys[i] = keys[j] /\ i < j)
        Pos(i) == Cardinality({j \in 1..n : Before(j, i)}) + 1
    IN [p \in 1..n |-> seq[CHOOSE i \in 1..n : Pos(i) = p]]

\* "".join(ws)
RECURSIVE Join(_)
Join(ws) == IF ws = <<>> THEN "" ELSE Head(ws) \o Join(Tail(ws))

\* sequences over S of length at most n
SeqUpTo(S, n) == UNION {[1..k -> S] : k \in 0..n}

-----------------------------------------------------------------------------
(* anonymizer.py: entity selection *)

_LEGAL_ROLE_WORDS == {
    "AGENT", "ASSIGNEE", "ASSIGNOR", "BENEFICIARY", "BORROWER",
    "BUYER", "CLIENT", "COMPANY", "CONSULTANT", "CONTRACTOR",
    "CUSTOMER", "DISTRIBUTOR", "EMPLOYEE", "EMPLOYER", "EXECUTOR",
    "GUARANTOR", "INVESTOR", "LANDLORD", "LENDER", "LESSEE",
    "LESSOR", "LICENSEE", "LICENSOR", "PARTNER", "PARTNERS",
    "PARTIES", "PARTY", "PRINCIPAL", "PROVIDER", "RECIPIENT",
    "SELLER", "SUBCONTRACTOR", "SUPPLIER", "TENANT", "TRUSTEE",
    "VENDOR"}

VALID_ENTITY_TYPES ==
    {"PERSON", "COMPANY", "ADDRESS", "EMAIL", "PHONE", "DOC_ID", "NATIONAL_ID"}

_is_legal_role_label(text) ==
    LET up == upper(strip(text))
    IN IF ~startswith(up, "THE ") THEN FALSE
       ELSE strip(SliceFrom(up, 4)) \in _LEGAL_ROLE_WORDS

\* a faulty overlap test: only spans with the same start collide
OverlapsSameStart(start_a, end_a, start_b, end_b) == start_a = start_b

_overlaps(start_a, end_a, start_b, end_b) == start_a < end_b /\ start_b < end_a

\* a faulty filter: the confidence is not looked at
QualifiesAnyConfidence(entity, entity_types, min_conf) ==
    /\ entity.label \in entity_types
    /\ entity.end > entity.start
    /\ ~_is_legal_role_label(entity.text)

\* the filter of _select_entities
Qualifies(entity, entity_types, min_conf) ==
    /\ entity.label \in entity_types
    /\ entity.confidence >= min_conf
    /\ entity.end > entity.start
    /\ ~_is_legal_role_label(entity.text)

\* a faulty ranking: document order only
RankKeyByStart(e) == <<e.start, 0, 0>>

\* the ranking key of _select_entities
RankKey(e) == <<-e.confidence, -(e.end - e.start), e.start>>

\* the greedy walk over the ranked candidates
RECURSIVE GreedySelect(_, _, _)
GreedySelect(ranked, i, selected) ==
    IF i > Len(ranked) THEN selected
    ELSE LET candidate == ranked[i]
         IN IF \E k \in 1..Len(selected) :
                   _overlaps(candidate.start, candidate.end,
                             selected[k].start, selected[k].end)
            THEN GreedySelect(ranked, i + 1, selected)
            ELSE GreedySelect(ranked, i + 1, Append(selected, candidate))

\* a faulty call that consumes its argument
EntitiesConsumed(entities) == <<>>

\* the list passed as entities after the call: the comprehension and sorted()
\* build new lists, the argument is only read
EntitiesAfterCall(entities) == entities

_select_entities(entities, entity_types, min_conf) ==
    LET candidates ==
            SelectSeq(entities, LAMBDA e : Qualifies(e, entity_types, min_conf))
        ranked == sorted(candidates, [i \in DOMAIN candidates |-> RankKey(candidates[i])])
        selected == GreedySelect(ranked, 1, <<>>)
    IN IF candidates = <<>> THEN <<>>
       ELSE sorted(selected, [i \in DOMAIN selected |-> <<selected[i].start>>])

-----------------------------------------------------------------------------
(* docx_engine.py: paragraphs as ordered runs; a run is [text, fmt] *)

\* paragraph_text: the run texts joined in document order
RECURSIVE paragraph_text(_)
paragraph_text(runs) ==
    IF runs = <<>> THEN "" ELSE Head(runs).text \o paragraph_text(Tail(runs))

\* a faulty run_bounds: the cursor is never advanced
RunBoundsNoCursor(runs) ==
    [i \in 1..Len(runs) |-> [run_start |-> 0, run_end |-> Len(runs[i].text)]]

\* run_bounds, lines 63-69: (run_start, run_end) of every run, from the texts before any rewrite
run_bounds(runs) ==
    [i \in 1..Len(runs) |->
        LET cursor == Len(paragraph_text(SubSeq(runs, 1, i - 1)))
        IN [run_start |-> cursor, run_end |-> cursor + Len(runs[i].text)]]

\* line 82: the run covering [run_start, run_end) intersects the replacement
Intersects(bound, r) == bound.run_start < r.end /\ bound.run_end > r.start

\* a faulty insert_text: the replacement goes into every intersecting run
InsertTextAlways(first, r) == r.replacement

\* line 93: the replacement string goes into the first intersecting run only
InsertText(first, r) == IF first THEN r.replacement ELSE ""

\* the inner loop over the runs a replacement intersects, in document order
RECURSIVE SpliceRuns(_, _, _, _, _)
SpliceRuns(st, bounds, r, i, first) ==
    IF i > Len(bounds) THEN st
    ELSE IF ~Intersects(bounds[i], r)
    THEN SpliceRuns(st, bounds, r, i + 1, first)
    ELSE LET run_text == st.runs[i].text
             local_start == Max(r.start, bounds[i].run_start) - bounds[i].run_start
             local_end == Min(r.end, bounds[i].run_end) - bounds[i].run_start
             new_text == Slice(run_text, 0, local_start) \o InsertText(first, r)
                            \o SliceFrom(run_text, local_end)
             st2 == IF new_text # run_text
                    THEN [runs |-> [st.runs EXCEPT ![i].text = new_text],
                          changed |-> st.changed + 1]
                    ELSE st
         IN SpliceRuns(st2, bounds, r, i + 1, FALSE)

\* a faulty order: ascending (start, end), left to right
ProcessingOrderAscending(replacements) ==
    sorted(replacements,
           [i \in DOMAIN replacements |-> <<replacements[i].start, replacements[i].end>>])

\* the order in which the replacements are processed: descending (start, end)
ProcessingOrder(replacements) ==
    sorted(replacements,
           [i \in DOMAIN replacements |-> <<-replacements[i].start, -replacements[i].end>>])

\* the outer loop over the replacements
RECURSIVE ApplyLoop(_, _, _, _)
ApplyLoop(st, bounds, ordered, k) ==
    IF k > Len(ordered) THEN st
    ELSE IF ordered[k].end <= ordered[k].start
    THEN ApplyLoop(st, bounds, ordered, k + 1)
    ELSE ApplyLoop(SpliceRuns(st, bounds, ordered[k], 1, TRUE), bounds, ordered, k + 1)

\* apply_replacements_to_paragraph: the rewritten runs and the returned count
apply_replacements_to_paragraph(runs, replacements) ==
    IF replacements = <<>> \/ runs = <<>> THEN [runs |-> runs, changed |-> 0]
    ELSE ApplyLoop([runs |-> runs, changed |-> 0], run_bounds(runs),
                   ProcessingOrder(replacements), 1)

-----------------------------------------------------------------------------
(* anonymizer.py: placeholder assignment (the loop body of anonymize_docx) *)

Digits == "0123456789"

\* str(n) for n >= 0
RECURSIVE ToDecimal(_)
ToDecimal(n) ==
    IF n < 10 THEN SubSeq(Digits, n + 1, n + 1)
    ELSE ToDecimal(n \div 10) \o SubSeq(Digits, (n % 10) + 1, (n % 10) + 1)

\* a faulty format: the field keeps three digits
Format03dTruncated(n) ==
    LET d == ToDecimal(n)
    IN IF Len(d) >= 3 THEN SliceFrom(d, Len(d) - 3) ELSE Slice("000", 0, 3 - Len(d)) \o d

\* f"{n:03d}": zero-padded to at least three digits, wider when needed
Format03d(n) ==
    LET d == ToDecimal(n)
    IN IF Len(d) >= 3 THEN d ELSE Slice("000", 0, 3 - Len(d)) \o d

\* f"{label}_{counter:03d}"
PlaceholderId(label, counter) == label \o "_" \o Format03d(counter)

\* a dict is the sequence of its items in insertion order: [id, label, original]
DictKeys(d) == {d[i].id : i \in 1..Len(d)}

\* a faulty store: the dict is rebuilt around the new item
DictSetAlone(d, item) == <<item>>

\* d[key] = value: overwrite in place, or append a new item
DictSet(d, item) ==
    IF item.id \in DictKeys(d)
    THEN [i \in 1..Len(d) |-> IF d[i].id = item.id THEN item ELSE d[i]]
    ELSE Append(d, item)

\* a faulty lookup: the index never finds the pair
ReverseGetNothing(index, key) == <<>>

\* reverse_index.get(key): <<>> stands for None
ReverseGet(index, key) ==
    IF key \in DOMAIN index THEN <<index[key]>> ELSE <<>>

\* a faulty increment: one counter shared by all labels
IncrementAll(cs, label) == [l \in DOMAIN cs |-> cs[l] + 1]

\* counters[entity.label] += 1  (line 87)
Increment(cs, label) == [cs EXCEPT ![label] = @ + 1]

\* lines 83-96: one entity of the paragraph; st = [mapping, reverse_index,
\* counters, replacements]
AssignOne(text, entity, st) ==
    LET original == Slice(text, entity.start, entity.end)
        key == <<entity.label, original>>
        found == ReverseGet(st.reverse_index, key)
        incremented == Increment(st.counters, entity.label)
        minted == PlaceholderId(entity.label, incremented[entity.label])
        placeholder == IF found = <<>> THEN minted ELSE found[1]
        rep == [start |-> entity.start, end |-> entity.end, replacement |-> placeholder]
    IN IF found = <<>>
       THEN [mapping |-> DictSet(st.mapping,
                            [id |-> minted, label |-> entity.label, original |-> original]),
             reverse_index |-> (key :> minted) @@ st.reverse_index,
             counters |-> incremented,
             replacements |-> Append(st.replacements, rep)]
       ELSE [st EXCEPT !.replacements = Append(st.replacements, rep)]

\* lines 81-96: the loop over the selected entities of one paragraph
RECURSIVE AssignLoop(_, _, _, _)
AssignLoop(text, entities, k, st) ==
    IF k > Len(entities) THEN st
    ELSE AssignLoop(text, entities, k + 1, AssignOne(text, entities[k], st))

\* a faulty normalization: unsupported types are dropped and nothing is refused
NormalizeLenient(entity_types) ==
    <<{upper(strip(entity_types[i])) : i \in 1..Len(entity_types)} \cap VALID_ENTITY_TYPES>>

\* _normalize_entity_types: <<>> stands for the AnonymizationError
_normalize_entity_types(entity_types) ==
    LET values == {upper(strip(entity_types[i])) : i \in 1..Len(entity_types)}
    IN IF \E v \in values : v \notin VALID_ENTITY_TYPES THEN <<>>
       ELSE IF values = {} THEN <<>>
       ELSE <<values>>

-----------------------------------------------------------------------------
(* anonymizer.py: locating placeholders for restoration *)

\* the while-loop of _placeholder_replacements for one placeholder id
RECURSIVE Occurrences(_, _, _, _)
Occurrences(text, placeholder, original, start) ==
    LET idx == find(text, placeholder, start)
    IN IF idx = -1 THEN <<>>
       ELSE <<[start |-> idx, end |-> idx + Len(placeholder), replacement |-> original]>>
            \o Occurrences(text, placeholder, original, idx + Len(placeholder))

\* sorted(mapping.placeholders.items(), key=len(id), reverse=True)
SortedPlaceholders(placeholders) == 
    sorted(placeholders, [i \in DOMAIN placeholders |-> <<-Len(placeholders[i].id)>>])

RECURSIVE AllMatches(_, _, _)
AllMatches(text, items, k) ==
    IF k > Len(items) THEN <<>>
    ELSE (IF items[k].original = "" THEN <<>>
          ELSE Occurrences(text, items[k].id, items[k].original, 0))
         \o AllMatches(text, items, k + 1)

\* the left-to-right walk that drops a match starting before current_end
RECURSIVE AcceptMatches(_, _, _)
AcceptMatches(matches, k, current_end) ==
    IF k > Len(matches) THEN <<>>
    ELSE IF matches[k].start < current_end
    THEN AcceptMatches(matches, k + 1, current_end)
    ELSE <<matches[k]>> \o AcceptMatches(matches, k + 1, matches[k].end)

_placeholder_replacements(text, placeholders) ==
    LET matches == AllMatches(text, SortedPlaceholders(placeholders), 1)
        ordered == sorted(matches, [i \in DOMAIN matches |->
                                       <<matches[i].start, -(matches[i].end - matches[i].start)>>])
    IN IF matches = <<>> THEN <<>> ELSE AcceptMatches(ordered, 1, -1)

-----------------------------------------------------------------------------
(* detector.py: the entries a backend command returns, made into EntitySpans *)

LABEL_ALIASES ==
    ("PERSON" :> "PERSON") @@ ("PER" :> "PERSON") @@ ("NAME" :> "PERSON") @@
    ("HUMAN" :> "PERSON") @@ ("ORG" :> "COMPANY") @@ ("ORGANIZATION" :> "COMPANY") @@
    ("COMPANY" :> "COMPANY") @@ ("ADDRESS" :> "ADDRESS") @@ ("LOCATION" :> "ADDRESS") @@
    ("LOC" :> "ADDRESS") @@ ("EMAIL" :> "EMAIL") @@ ("MAIL" :> "EMAIL") @@
    ("PHONE" :> "PHONE") @@ ("PHONE NUMBER" :> "PHONE") @@ ("TEL" :> "PHONE") @@
    ("MOBILE" :> "PHONE")

\* _normalize_label: <<>> stands for None
_normalize_label(label) ==
    LET key == upper(strip(label))
    IN IF key \in DOMAIN LABEL_ALIASES /\ LABEL_ALIASES[key] \in VALID_ENTITY_TYPES
       THEN <<LABEL_ALIASES[key]>>
       ELSE <<>>

\* int(entity[key]) for a JSON value [kind, n]: an integer n, a number with
\* a fraction (n + 0.5, cut to n), Infinity (OverflowError), a string that is
\* no number (ValueError), the absent key (KeyError)
int(v) ==
    CASE v.kind = "int" -> [status |-> "ok", n |-> v.n]
      [] v.kind = "fraction" -> [status |-> "ok", n |-> v.n]
      [] v.kind = "Infinity" -> [status |-> "OverflowError", n |-> 0]
      [] v.kind = "text" -> [status |-> "ValueError", n |-> 0]
      [] v.kind = "absent" -> [status |-> "KeyError", n |-> 0]

\* _normalize_entity: status "ok" with the span, "None", or the exception
\* that escapes the try block (it catches KeyError, TypeError, ValueError)
_normalize_entity(entity, source_text) ==
    LET start == int(entity.start)
        end == int(entity.end)
        label == _normalize_label(entity.label)
        caught == {"KeyError", "TypeError", "ValueError"}
    IN IF start.status # "ok"
       THEN [status |-> IF start.status \in caught THEN "None" ELSE start.status,
             span |-> <<>>]
       ELSE IF end.status # "ok"
       THEN [status |-> IF end.status \in caught THEN "None" ELSE end.status,
             span |-> <<>>]
       ELSE IF start.n < 0 \/ end.n <= start.n \/ end.n > Len(source_text)
       THEN [status |-> "None", span |-> <<>>]
       ELSE IF label = <<>> THEN [status |-> "None", span |-> <<>>]
       ELSE [status |-> "ok",
             span |-> <<[start |-> start.n, end |-> end.n, label |-> label[1],
                         text |-> Slice(source_text, start.n, end.n),
                         confidence |-> 100]>>]

\* the loop of CommandDetector.detect over entities_raw; an exception of
\* _normalize_entity ends the call
RECURSIVE NormalizeAll(_, _, _)
NormalizeAll(entities_raw, k, text) ==
    IF k > Len(entities_raw) THEN [status |-> "ok", entities |-> <<>>]
    ELSE LET normalized == _normalize_entity(entities_raw[k], text)
             rest == NormalizeAll(entities_raw, k + 1, text)
         IN IF normalized.status \notin {"ok", "None"}
            THEN [status |-> normalized.status, entities |-> <<>>]
            ELSE IF rest.status # "ok" THEN rest
            ELSE [status |-> "ok", entities |-> normalized.span \o rest.entities]

\* CommandDetector.detect once the command has returned a list of objects
detect(text, entities_raw) ==
    IF strip(text) = "" THEN [status |-> "ok", entities |-> <<>>]
    ELSE LET out == NormalizeAll(entities_raw, 1, text)
         IN IF out.status # "ok" THEN out
            ELSE [status |-> "ok",
                  entities |-> sorted(out.entities,
                                 [i \in DOMAIN out.entities |->
                                     <<out.entities[i].start, out.entities[i].end>>])]

-----------------------------------------------------------------------------
(* mapping_store.py: MappingData, JSON text, key derivation, encryption *)

PBKDF2_ITERATIONS == 390000

\* datetime.now(timezone.utc).isoformat() at the time of the run
Now == "2026-01-01T00:00:00+00:00"

\* MappingData.create_empty
create_empty == [placeholders |-> <<>>, created_at |-> Now]

\* MappingData.to_dict
to_dict(data) ==
    [version |-> 1, created_at |-> data.created_at,
     placeholders |-> data.placeholders]

\* how a call ends: raise MappingStoreError(message), let another exception
\* through, or return a MappingData
Raised(message) == [status |-> "MappingStoreError", message |-> message, mapping |-> <<>>]
Escaped(exception) == [status |-> exception, message |-> "", mapping |-> <<>>]
Returned(data) == [status |-> "ok", message |-> "", mapping |-> <<data>>]

\* MappingData.from_dict on a parsed JSON value: value.get on a value that is no
\* object is an AttributeError nothing catches
from_dict(value) ==
    IF value.kind # "object" THEN Escaped("AttributeError")
    ELSE IF ~value.placeholders_is_dict
    THEN Raised("Invalid mapping payload: placeholders must be an object.")
    ELSE Returned([placeholders |-> value.placeholders, created_at |-> value.created_at])

\* a JSON text is the sequence of its tokens; a string token carries its quotes
Quote(s) == "\"" \o s \o "\""
IsQuoted(t) == Len(t) >= 2 /\ SubSeq(t, 1, 1) = "\"" /\ SubSeq(t, Len(t), Len(t)) = "\""
Unquote(t) == Slice(t, 1, Len(t) - 1)

IsDecimal(t) ==
    /\ t # ""
    /\ \A i \in 1..Len(t) : \E d \in 1..Len(Digits) : SubSeq(Digits, d, d) = SubSeq(t, i, i)

DigitValue(c) == (CHOOSE d \in 1..Len(Digits) : SubSeq(Digits, d, d) = c) - 1

\* int(t) of a decimal token
RECURSIVE ParseDecimal(_)
ParseDecimal(t) ==
    IF Len(t) = 1 THEN DigitValue(t)
    ELSE 10 * ParseDecimal(Slice(t, 0, Len(t) - 1)) + DigitValue(SubSeq(t, Len(t), Len(t)))

ItemTokens(item) ==
    <<Quote(item.id), "{", Quote("label"), Quote(item.label),
      Quote("original"), Quote(item.original), "}">>

\* a faulty serialisation: only the first placeholder is written
ItemsTokensFirstOnly(items) ==
    IF items = <<>> THEN <<>> ELSE ItemTokens(Head(items))

RECURSIVE ItemsTokens(_)
ItemsTokens(items) ==
    IF items = <<>> THEN <<>> ELSE ItemTokens(Head(items)) \o ItemsTokens(Tail(items))

\* json.dumps(mapping.to_dict()): keys and items in insertion order
json_dumps(d) ==
    <<"{", Quote("version"), ToDecimal(d.version),
      Quote("created_at"), Quote(d.created_at), Quote("placeholders"), "{">>
    \o ItemsTokens(d.placeholders) \o <<"}", "}">>

ItemWellFormed(t) ==
    /\ IsQuoted(t[1]) /\ t[2] = "{" /\ t[3] = Quote("label") /\ IsQuoted(t[4])
    /\ t[5] = Quote("original") /\ IsQuoted(t[6]) /\ t[7] = "}"

ParseItem(t) ==
    [id |-> Unquote(t[1]), label |-> Unquote(t[4]), original |-> Unquote(t[6])]

\* a JSON scalar: one number, string or null token
IsScalar(tokens) ==
    Len(tokens) = 1 /\ (IsDecimal(tokens[1]) \/ IsQuoted(tokens[1]) \/ tokens[1] = "null")

\* a parsed JSON value that is not an object (a number, a string, null, a list)
NotAnObject ==
    [kind |-> "other", version |-> 0, created_at |-> "", placeholders |-> <<>>,
     placeholders_is_dict |-> FALSE]

\* a parsed JSON object, with the defaults value.get(...) supplies
JsonObject(created_at, placeholders, is_dict) ==
    [kind |-> "object", version |-> 1, created_at |-> created_at,
     placeholders |-> placeholders, placeholders_is_dict |-> is_dict]

\* json.loads of the decrypted text: <<>> stands for the JSONDecodeError
json_loads(tokens) ==
    LET n == Len(tokens)
        k == (n - 9) \div 7
        item(i) == SubSeq(tokens, 8 + 7 * (i - 1), 7 + 7 * i)
        header == /\ n >= 8
                  /\ tokens[1] = "{" /\ tokens[2] = Quote("version") /\ IsDecimal(tokens[3])
                  /\ tokens[4] = Quote("created_at") /\ IsQuoted(tokens[5])
                  /\ tokens[6] = Quote("placeholders") /\ tokens[n] = "}"
    IN IF IsScalar(tokens) \/ tokens = <<"[", "]">> THEN <<NotAnObject>>
       ELSE IF tokens = <<"{", "}">> THEN <<JsonObject("", <<>>, TRUE)>>
       ELSE IF header /\ n = 8 /\ IsScalar(<<tokens[7]>>)
       THEN <<JsonObject(Unquote(tokens[5]), <<>>, FALSE)>>
       ELSE IF /\ header /\ n >= 9 /\ (n - 9) % 7 = 0
               /\ tokens[7] = "{" /\ tokens[n - 1] = "}"
               /\ \A i \in 1..k : ItemWellFormed(item(i))
       THEN <<JsonObject(Unquote(tokens[5]), [i \in 1..k |-> ParseItem(item(i))], TRUE)>>
       ELSE <<>>

\* base64.b64encode / b64decode of the salt
b64encode(bytes) == "b64:" \o bytes
b64decode(str) == SliceFrom(str, 4)

\* _derive_fernet_key: PBKDF2-HMAC-SHA256 taken as a collision-free function of
\* (password, salt, iterations)
_derive_fernet_key(password, salt, iterations) ==
    <<password, salt, ToDecimal(iterations)>>

\* the HMAC of a Fernet token, taken as a collision-free function of key and text
Hmac(key, text) == Join(key \o text)

\* Fernet(key).encrypt: the token carries the text and its HMAC under the key
fernet_encrypt(key, plaintext) == key \o plaintext \o <<Hmac(key, plaintext)>>

\* a faulty decrypt: the token's authentication is not verified
FernetDecryptUnverified(key, token) ==
    IF Len(token) >= 4 THEN <<SubSeq(token, 4, Len(token) - 1)>> ELSE <<>>

\* Fernet(key).decrypt: <<>> stands for InvalidToken, else <<plaintext>>
fernet_decrypt(key, token) ==
    IF /\ Len(token) >= 4
       /\ SubSeq(token, 1, 3) = key
       /\ token[Len(token)] = Hmac(key, SubSeq(token, 4, Len(token) - 1))
    THEN <<SubSeq(token, 4, Len(token) - 1)>> ELSE <<>>

\* json.dumps(payload) of lines 79-87 around a ciphertext
PayloadTokens(salt, ciphertext) ==
    <<"{", Quote("version"), ToDecimal(1), Quote("kdf"), Quote("pbkdf2-sha256"),
      Quote("iterations"), ToDecimal(PBKDF2_ITERATIONS),
      Quote("salt"), Quote(b64encode(salt)), Quote("ciphertext")>>
    \o ciphertext \o <<"}">>

\* the file write_encrypted_mapping writes
write_encrypted_mapping(data, password, salt) ==
    LET key == _derive_fernet_key(password, salt, PBKDF2_ITERATIONS)
        plaintext == json_dumps(to_dict(data))
        ciphertext == fernet_encrypt(key, plaintext)
    IN PayloadTokens(salt, ciphertext)

\* a byte sequence that is not UTF-8
InvalidByte == "\\xff"

\* bytes.decode("utf-8"): <<>> stands for the UnicodeDecodeError
utf8_decode(bytes) ==
    IF \E i \in 1..Len(bytes) : bytes[i] = InvalidByte THEN <<>> ELSE <<bytes>>

\* json.loads of the file text yields an object (a text in braces), another
\* JSON value (a scalar, a list), or a JSONDecodeError
IsJsonObject(tokens) ==
    Len(tokens) >= 2 /\ tokens[1] = "{" /\ tokens[Len(tokens)] = "}"
IsJson(tokens) == IsJsonObject(tokens) \/ IsScalar(tokens) \/ tokens = <<"[", "]">>

\* payload[key]: the index of the value of a key of the object, 0 for a KeyError
ValueIndex(tokens, key) ==
    LET hits == {i \in 2..(Len(tokens) - 2) : i % 2 = 0 /\ tokens[i] = Quote(key)}
    IN IF hits = {} THEN 0 ELSE (CHOOSE i \in hits : \A j \in hits : i <= j) + 1

\* a string base64.b64decode accepts
IsBase64(t) == IsQuoted(t) /\ startswith(Unquote(t), "b64:")

\* lines 98-103, the encryption metadata of a payload: <<>> stands for the
\* KeyError, ValueError or TypeError the lines turn into MappingStoreError
PayloadMetadata(tokens) ==
    LET n == Len(tokens)
        salt_at == ValueIndex(tokens, "salt")
        ciphertext_at == ValueIndex(tokens, "ciphertext")
        iterations_at == ValueIndex(tokens, "iterations")
    IN IF ~IsJsonObject(tokens) \/ salt_at = 0 \/ ciphertext_at = 0 THEN <<>>
       ELSE IF ~IsBase64(tokens[salt_at]) THEN <<>>
       ELSE IF iterations_at # 0 /\ ~IsDecimal(tokens[iterations_at]) THEN <<>>
       ELSE <<[salt |-> b64decode(Unquote(tokens[salt_at])),
               ciphertext |-> SubSeq(tokens, ciphertext_at, n - 1),
               iterations |-> IF iterations_at = 0 THEN PBKDF2_ITERATIONS
                              ELSE ParseDecimal(tokens[iterations_at])]>>

\* lines 105-119: derive the key, decrypt, parse, build the MappingData
DecryptAndLoad(meta, password) ==
    LET key == _derive_fernet_key(password, meta.salt, meta.iterations)
        plaintext == fernet_decrypt(key, meta.ciphertext)
    IN IF plaintext = <<>>
       THEN Raised("Failed to decrypt mapping. Password may be incorrect.")
       ELSE IF utf8_decode(plaintext[1]) = <<>> THEN Escaped("UnicodeDecodeError")
       ELSE IF json_loads(plaintext[1]) = <<>>
       THEN Raised("Decrypted mapping payload is invalid JSON.")
       ELSE from_dict(json_loads(plaintext[1])[1])

\* read_encrypted_mapping on a file (<<>> when the path does not exist, else
\* <<the bytes of the file>>)
read_encrypted_mapping(file, password) ==
    IF file = <<>> THEN Raised("Mapping file not found")
    ELSE IF utf8_decode(file[1]) = <<>> THEN Escaped("UnicodeDecodeError")
    ELSE IF ~IsJson(file[1]) THEN Raised("Mapping file is not valid JSON")
    ELSE IF PayloadMetadata(file[1]) = <<>>
    THEN Raised("Mapping file payload is missing required encryption metadata.")
    ELSE DecryptAndLoad(PayloadMetadata(file[1])[1], password)

\* write_mapping (plain mode): the structured record as JSON text
write_mapping(data) == json_dumps(to_dict(data))

\* read_mapping (plain mode) on a file (<<>> when the path does not exist)
read_mapping(file) ==
    IF file = <<>> THEN Raised("Mapping file not found")
    ELSE LET mapping_obj == json_loads(file[1])
         IN IF mapping_obj = <<>> THEN Raised("Mapping file is not valid JSON")
            ELSE from_dict(mapping_obj[1])

-----------------------------------------------------------------------------
(* Each specification exercises one part and leaves the others idle *)

PipeIdle ==
    /\ pc = "idle" /\ input_doc = <<>> /\ req_types = <<>> /\ min_confidence = 0
    /\ doc = <<>> /\ para = 0 /\ normalized_entity_types = {}
    /\ mapping = create_empty
    /\ reverse_index = <<>> /\ counters = <<>> /\ raw = <<>>
    /\ output_file = <<>> /\ map_file = <<>> /\ restored_file = <<>>
    /\ loaded = <<>> /\ history = <<>>

SelectIdle ==
    /\ sel_entities = <<>> /\ sel_types = {} /\ sel_min = 0
    /\ sel_result = <<>> /\ sel_replacements = <<>> /\ sel_again = <<>>
    /\ sel_pc = "idle"

SpliceIdle ==
    /\ sp_runs = <<>> /\ sp_reps = <<>> /\ sp_after = <<>>
    /\ sp_changed = 0 /\ sp_pc = "idle"

StoreIdle ==
    /\ st_file = <<>> /\ st_written = <<>> /\ st_result = <<>> /\ st_pc = "idle"

ScanIdle ==
    /\ sc_words = <<>> /\ sc_placeholders = <<>> /\ sc_result = <<>> /\ sc_pc = "idle"

DetectIdle ==
    /\ dt_text = "" /\ dt_entities_raw = <<>> /\ dt_result = <<>> /\ dt_pc = "idle"

\* the assigner state at the start of an anonymize run (lines 60-62)
NewAssigner(types) ==
    [mapping |-> create_empty.placeholders, reverse_index |-> <<>>,
     counters |-> [t \in types |-> 0], replacements |-> <<>>]

-----------------------------------------------------------------------------
(* Specification SpecSelect: _select_entities on bounded candidate lists,   *)
(* then the replacements anonymize_docx builds from the selection           *)

SelLabels == {"PERSON", "EMAIL"}
SelConfidences == {40, 50, 90}

\* the text of a role label, with the case and the blanks str.strip/upper remove
SelRoleText == "the Agent "
\* the text of an ordinary candidate
SelPlainText == "ab"

\* candidates over a paragraph of MaxOffset characters: every non-empty span and
\* one empty span
SelSpans ==
    {<<s, e>> \in (0..MaxOffset) \X (0..MaxOffset) : s < e \/ (s = e /\ s = 1)}

SelInputs ==
    {[start |-> se[1], end |-> se[2], label |-> l, text |-> SelPlainText,
      confidence |-> c] : se \in SelSpans, l \in SelLabels, c \in SelConfidences}
    \cup
    {[start |-> se[1], end |-> se[2], label |-> "PERSON", text |-> SelRoleText,
      confidence |-> c] : se \in {x \in SelSpans : x[1] < x[2]}, c \in {50, 90}}

\* the paragraph text the offsets refer to
RECURSIVE TextOfLen(_)
TextOfLen(n) == IF n = 0 THEN "" ELSE TextOfLen(n - 1) \o (IF n % 2 = 1 THEN "a" ELSE "b")

SelectInit ==
    /\ sel_entities \in SeqUpTo(SelInputs, MaxCandidates)
    /\ sel_types = {"PERSON"}
    /\ sel_min = 50
    /\ sel_result = <<>>
    /\ sel_replacements = <<>>
    /\ sel_again = <<>>
    /\ sel_pc = "input"
    /\ PipeIdle /\ SpliceIdle /\ StoreIdle /\ ScanIdle /\ DetectIdle

\* lines 75-96 of anonymize_docx for one paragraph
Select ==
    /\ sel_pc = "input"
    /\ \E entities \in {_select_entities(sel_entities, sel_types, sel_min)} :
          /\ sel_result' = entities
          /\ sel_replacements' =
                AssignLoop(TextOfLen(MaxOffset), entities, 1,
                           NewAssigner(sel_types)).replacements
    /\ sel_entities' = EntitiesAfterCall(sel_entities)
    /\ sel_pc' = "done"
    /\ UNCHANGED <<sel_types, sel_min, sel_again, pipeVars, spVars, stVars, scVars, dtVars>>

\* _select_entities called once more with the same arguments
SelectAgain ==
    /\ sel_pc = "done"
    /\ sel_again' = _select_entities(sel_entities, sel_types, sel_min)
    /\ sel_entities' = EntitiesAfterCall(sel_entities)
    /\ sel_pc' = "again"
    /\ UNCHANGED <<sel_types, sel_min, sel_result, sel_replacements,
                   pipeVars, spVars, stVars, scVars, dtVars>>

SelectNext == Select \/ SelectAgain

SpecSelect == SelectInit /\ [][SelectNext]_vars

-----------------------------------------------------------------------------
(* Specification SpecPermute: _select_entities on a candidate list and on   *)
(* the same candidates listed in another order                              *)

\* candidates of two labels at and above the threshold
PermInputs ==
    {[start |-> se[1], end |-> se[2], label |-> l, text |-> SelPlainText,
      confidence |-> c] : se \in SelSpans, l \in SelLabels, c \in {50, 90}}

PermuteInit ==
    /\ sel_entities \in SeqUpTo(PermInputs, MaxCandidates)
    /\ sel_types \in {{"PERSON"}, {"PERSON", "EMAIL"}}
    /\ sel_min = 50
    /\ sel_result = <<>>
    /\ sel_replacements = <<>>
    /\ sel_again = <<>>
    /\ sel_pc = "input"
    /\ PipeIdle /\ SpliceIdle /\ StoreIdle /\ ScanIdle /\ DetectIdle

\* the detector lists the same candidates in another order and
\* _select_entities is called on that list
SelectPermuted ==
    /\ sel_pc = "done"
    /\ \E p \in Permutations(DOMAIN sel_entities) :
       \E permuted \in {[i \in DOMAIN sel_entities |-> sel_entities[p[i]]]} :
          /\ sel_again' = _select_entities(permuted, sel_types, sel_min)
          /\ sel_entities' = EntitiesAfterCall(permuted)
    /\ sel_pc' = "permuted"
    /\ UNCHANGED <<sel_types, sel_min, sel_result, sel_replacements,
                   pipeVars, spVars, stVars, scVars, dtVars>>

PermuteNext == Select \/ SelectPermuted

SpecPermute == PermuteInit /\ [][PermuteNext]_vars

-----------------------------------------------------------------------------
(* Specification SpecSplice: apply_replacements_to_paragraph on bounded     *)
(* paragraphs and replacement lists                                         *)

SpRunTexts == {"", "a", "bc"}
SpReplacementTexts == {"", "a", "XY"}

\* the formatting payload of the i-th run: opaque, different from its neighbours
Format(i) == IF i % 2 = 1 THEN "bold" ELSE "plain"

WithFormats(texts) == [i \in 1..Len(texts) |-> [text |-> texts[i], fmt |-> Format(i)]]

SpParagraphs == {WithFormats(t) : t \in SeqUpTo(SpRunTexts, MaxRuns)}

\* replacements over a text of n characters; empty ranges included
SpReplacements(n) ==
    {[start |-> s, end |-> e, replacement |-> r] :
        s \in 0..n, e \in 0..n, r \in SpReplacementTexts}

SpliceInit ==
    /\ sp_runs \in SpParagraphs
    /\ sp_reps \in SeqUpTo({r \in SpReplacements(Len(paragraph_text(sp_runs))) :
                               r.start <= r.end}, MaxReps)
    /\ sp_after = <<>>
    /\ sp_changed = 0
    /\ sp_pc = "input"
    /\ PipeIdle /\ SelectIdle /\ StoreIdle /\ ScanIdle /\ DetectIdle

Splice ==
    /\ sp_pc = "input"
    /\ \E out \in {apply_replacements_to_paragraph(sp_runs, sp_reps)} :
          /\ sp_after' = out.runs
          /\ sp_changed' = out.changed
    /\ sp_pc' = "done"
    /\ UNCHANGED <<sp_runs, sp_reps, pipeVars, selVars, stVars, scVars, dtVars>>

SpliceNext == Splice

SpecSplice == SpliceInit /\ [][SpliceNext]_vars

-----------------------------------------------------------------------------
(* Specification SpecStore: write_encrypted_mapping and                     *)
(* read_encrypted_mapping on one path                                       *)

Passwords == {"correct", "incorrect", ""}
\* values os.urandom(SALT_BYTES) may return
Salts == {"salt-1", "salt-2"}

StoreItems ==
    {[id |-> "PERSON_001", label |-> "PERSON", original |-> o] : o \in {"Jane Doe", "Al"}}
    \cup
    {[id |-> "COMPANY_001", label |-> "COMPANY", original |-> o] : o \in {"Acme LLC"}}

\* mappings: items with distinct ids, in any insertion order
StoreMappings ==
    {[placeholders |-> items, created_at |-> Now] :
        items \in {q \in SeqUpTo(StoreItems, MaxItems) :
                      \A i, j \in 1..Len(q) : i # j => q[i].id # q[j].id}}

\* file contents that are not the structured record of lines 79-87: bytes that
\* are not UTF-8, an empty file, text that is not JSON, JSON that is no object,
\* an object without the metadata, a salt that is not base64, a cut-off file
UnparseableContents ==
    {<<InvalidByte>>, <<>>, <<"garbage">>, <<"5">>, <<"[", "]">>,
     <<"{", Quote("version"), "1", "}">>,
     <<"{", Quote("salt"), "5", Quote("ciphertext"), "x", "}">>,
     SubSeq(PayloadTokens("salt-1", <<"x">>), 1, 11)}

\* decrypted texts that are not a mapping record: not JSON, JSON that is no
\* object, an object whose placeholders are not an object
UnparseablePlaintexts ==
    {<<"garbage">>, <<"5">>, <<"[", "]">>,
     <<"{", Quote("version"), "1", Quote("created_at"), Quote(Now),
       Quote("placeholders"), "5", "}">>}

\* texts another writer may have encrypted under the password
ForeignPlaintexts == UnparseablePlaintexts \cup {<<"{", "}">>}

\* a file holding a text encrypted under a password
EncryptedFile(plaintext, password, salt) ==
    PayloadTokens(salt,
        fernet_encrypt(_derive_fernet_key(password, salt, PBKDF2_ITERATIONS), plaintext))

\* the written file with its ciphertext corrupted: the text or the HMAC altered
Tampered(tokens) ==
    {[tokens EXCEPT ![14] = "["], [tokens EXCEPT ![Len(tokens) - 1] = "00"]}

StoreInit ==
    /\ st_file = <<>>
    /\ st_written = <<>>
    /\ st_result = <<>>
    /\ st_pc = "ready"
    /\ PipeIdle /\ SelectIdle /\ SpliceIdle /\ ScanIdle /\ DetectIdle

\* write_encrypted_mapping(path, mapping, password)
StoreWrite ==
    /\ st_pc = "ready"
    /\ \E data \in StoreMappings, password \in Passwords, salt \in Salts :
          /\ st_file' = <<write_encrypted_mapping(data, password, salt)>>
          /\ st_written' = <<[mapping |-> data, password |-> password, intact |-> TRUE]>>
    /\ st_result' = <<>>
    /\ UNCHANGED <<st_pc, pipeVars, selVars, spVars, scVars, dtVars>>

\* the file is removed or overwritten by something that is no mapping payload
StoreOverwrite ==
    /\ st_pc = "ready"
    /\ st_file' \in {<<>>} \cup {<<c>> : c \in UnparseableContents}
                   \cup {<<EncryptedFile(t, p, "salt-1")>> :
                            t \in ForeignPlaintexts, p \in Passwords}
    /\ st_file' # st_file
    /\ st_written' = <<>>
    /\ st_result' = <<>>
    /\ UNCHANGED <<st_pc, pipeVars, selVars, spVars, scVars, dtVars>>

\* the ciphertext of the written file is corrupted
StoreTamper ==
    /\ st_pc = "ready"
    /\ st_written # <<>> /\ st_written[1].intact
    /\ \E t \in Tampered(st_file[1]) : st_file' = <<t>>
    /\ st_written' = <<[st_written[1] EXCEPT !.intact = FALSE]>>
    /\ st_result' = <<>>
    /\ UNCHANGED <<st_pc, pipeVars, selVars, spVars, scVars, dtVars>>

\* read_encrypted_mapping(path, password)
StoreRead ==
    /\ st_pc = "ready"
    /\ \E password \in Passwords :
          st_result' = <<[password |-> password,
                          outcome |-> read_encrypted_mapping(st_file, password)]>>
    /\ UNCHANGED <<st_file, st_written, st_pc, pipeVars, selVars, spVars, scVars, dtVars>>

StoreNext == StoreWrite \/ StoreOverwrite \/ StoreTamper \/ StoreRead

SpecStore == StoreInit /\ [][StoreNext]_vars

-----------------------------------------------------------------------------
(* Specification SpecScan: _placeholder_replacements on any text and mapping *)

\* the pieces a paragraph text is put together from; "PERSON_100" is a
\* prefix of "PERSON_1000"
ScanWords == {"PERSON_100", "PERSON_1000", "COMPANY_001", "x"}
ScanIds == {"PERSON_100", "PERSON_1000", "COMPANY_001"}
ScanOriginals == {"Al", "Bo", ""}

ScanTexts == SeqUpTo(ScanWords, MaxScanWords)

\* mapping.placeholders: a dict, so no id occurs twice
ScanMappings ==
    {m \in SeqUpTo([id : ScanIds, original : ScanOriginals], MaxItems) :
        \A i, j \in DOMAIN m : i # j => m[i].id # m[j].id}

ScanInit ==
    /\ sc_words \in ScanTexts
    /\ sc_placeholders \in ScanMappings
    /\ sc_result = <<>>
    /\ sc_pc = "ready"
    /\ PipeIdle /\ SelectIdle /\ SpliceIdle /\ StoreIdle /\ DetectIdle

\* replacements = _placeholder_replacements(text, mapping)  (line 140)
Scan ==
    /\ sc_pc = "ready"
    /\ sc_result' = _placeholder_replacements(Join(sc_words), sc_placeholders)
    /\ sc_pc' = "done"
    /\ UNCHANGED <<sc_words, sc_placeholders, pipeVars, selVars, spVars, stVars, dtVars>>

ScanNext == Scan

SpecScan == ScanInit /\ [][ScanNext]_vars

-----------------------------------------------------------------------------
(* Specification Spec: anonymize_docx, then deanonymize_docx of its output  *)

\* the words documents are made of: plain text, a text shaped like a placeholder
\* id, and a legal role label
Words == {"a", "PERSON_001", "The Agent"}

\* the ways of laying a sequence of words out in runs
RECURSIVE RunTexts(_)
RunTexts(ws) ==
    IF ws = <<>> THEN {<<>>}
    ELSE UNION {{<<Join(SubSeq(ws, 1, k))>> \o rest :
                    rest \in RunTexts(SubSeq(ws, k + 1, Len(ws)))} : k \in 1..Len(ws)}

\* the paragraphs made of exactly n words, in every layout
ParagraphsOf(n) == {WithFormats(t) : t \in UNION {RunTexts(ws) : ws \in [1..n -> Words]}}

\* the documents whose paragraphs have the given numbers of words
RECURSIVE DocsOf(_)
DocsOf(sizes) ==
    IF sizes = <<>> THEN {<<>>}
    ELSE {<<p>> \o d : p \in ParagraphsOf(Head(sizes)), d \in DocsOf(Tail(sizes))}

RECURSIVE Sum(_)
Sum(ns) == IF ns = <<>> THEN 0 ELSE Head(ns) + Sum(Tail(ns))

\* documents of 1..MaxParas paragraphs, each of 0..MaxWords words
InputDocs ==
    UNION {DocsOf(sizes) : sizes \in
              {z \in SeqUpTo(0..MaxWords, MaxParas) : z # <<>> /\ Sum(z) <= MaxDocWords}}

\* entity_types arguments: two that are accepted, two that are refused
RequestedTypes == {<<"person">>, <<"PERSON", " company">>, <<>>, <<"NAME">>}

DetLabels == {"PERSON", "COMPANY"}
\* the confidence a detector gives a label (HeuristicDetector: 0.65 and 0.85)
DetConfidence(label) == IF label = "PERSON" THEN 65 ELSE 85

\* offsets at which a word of the text starts or ends
Boundaries(text) ==
    {0, Len(text)} \cup
    UNION {{x[1], x[1] + Len(x[2])} : x \in
              {y \in (0..Len(text)) \X Words : Slice(text, y[1], y[1] + Len(y[2])) = y[2]}}

\* the candidates of a text: spans of whole words, carrying the exact substring
DetectorCandidates(text) ==
    {[start |-> se[1], end |-> se[2], label |-> l, text |-> Slice(text, se[1], se[2]),
      confidence |-> DetConfidence(l)] :
        se \in {x \in Boundaries(text) \X Boundaries(text) : x[1] < x[2]},
        l \in DetLabels}

\* what detector.detect(text) may return: up to MaxDetected candidates in the
\* order every detector returns them, sorted by (start, end)
DetectorOutputs(text) ==
    {q \in SeqUpTo(DetectorCandidates(text), MaxDetected) :
        \A i \in 1..(Len(q) - 1) :
            ~LexLess(<<q[i + 1].start, q[i + 1].end>>, <<q[i].start, q[i].end>>)}

Init ==
    /\ pc = "start"
    /\ input_doc \in InputDocs
    /\ req_types \in RequestedTypes
    /\ min_confidence = 50
    /\ doc = <<>> /\ para = 0 /\ normalized_entity_types = {}
    /\ mapping = create_empty /\ reverse_index = <<>> /\ counters = <<>>
    /\ raw = <<>> /\ output_file = <<>> /\ map_file = <<>> /\ restored_file = <<>>
    /\ loaded = <<>> /\ history = <<>>
    /\ SelectIdle /\ SpliceIdle /\ StoreIdle /\ ScanIdle /\ DetectIdle

others == <<selVars, spVars, stVars, scVars, dtVars>>

\* anonymize_docx, lines 57-66: validate the types, open the document
AnonymizeStart ==
    /\ pc = "start"
    /\ \E normalized \in {_normalize_entity_types(req_types)} :
          IF normalized = <<>>
          THEN /\ pc' = "anonymize_failed"
               /\ UNCHANGED <<doc, para, normalized_entity_types, mapping,
                              reverse_index, counters>>
          ELSE /\ pc' = "anonymizing"
               /\ doc' = input_doc
               /\ para' = 1
               /\ normalized_entity_types' = normalized[1]
               /\ mapping' = create_empty
               /\ reverse_index' = <<>>
               /\ counters' = [t \in normalized[1] |-> 0]
    /\ UNCHANGED <<input_doc, req_types, min_confidence, raw, output_file, map_file,
                   restored_file, loaded, history, others>>

\* lines 69-71: a paragraph whose text is blank is passed over
AnonymizeSkip ==
    /\ pc = "anonymizing" /\ para <= Len(doc)
    /\ strip(paragraph_text(doc[para])) = ""
    /\ para' = para + 1
    /\ UNCHANGED <<pc, input_doc, req_types, min_confidence, doc,
                   normalized_entity_types, mapping, reverse_index, counters, raw,
                   output_file, map_file, restored_file, loaded, history, others>>

\* line 74: the detector returns its candidates for the paragraph
Detect ==
    /\ pc = "anonymizing" /\ para <= Len(doc)
    /\ strip(paragraph_text(doc[para])) # ""
    /\ raw' \in DetectorOutputs(paragraph_text(doc[para]))
    /\ pc' = "detected"
    /\ UNCHANGED <<input_doc, req_types, min_confidence, doc, para,
                   normalized_entity_types, mapping, reverse_index, counters,
                   output_file, map_file, restored_file, loaded, history, others>>

\* line 74: the detector raises (DetectorError, timeout)
DetectFails ==
    /\ pc = "anonymizing" /\ para <= Len(doc)
    /\ strip(paragraph_text(doc[para])) # ""
    /\ pc' = "anonymize_failed"
    /\ UNCHANGED <<input_doc, req_types, min_confidence, doc, para,
                   normalized_entity_types, mapping, reverse_index, counters, raw,
                   output_file, map_file, restored_file, loaded, history, others>>

\* lines 75-98: select, assign placeholders, rewrite the runs
\* (each intermediate value is bound through a singleton set: evaluated once)
AnonymizeParagraph ==
    /\ pc = "detected"
    /\ \E text \in {paragraph_text(doc[para])} :
       \E entities \in {_select_entities(raw, normalized_entity_types, min_confidence)} :
       \E st \in {AssignLoop(text, entities, 1,
                    [mapping |-> mapping.placeholders, reverse_index |-> reverse_index,
                     counters |-> counters, replacements |-> <<>>])} :
       \E out \in {apply_replacements_to_paragraph(doc[para], st.replacements)} :
          /\ mapping' = [mapping EXCEPT !.placeholders = st.mapping]
          /\ reverse_index' = st.reverse_index
          /\ counters' = st.counters
          /\ doc' = IF entities = <<>> THEN doc ELSE [doc EXCEPT ![para] = out.runs]
          /\ history' = Append(history,
                [para |-> para, text |-> text, raw |-> raw, entities |-> entities,
                 replacements |-> st.replacements])
    /\ raw' = <<>>
    /\ para' = para + 1
    /\ pc' = "anonymizing"
    /\ UNCHANGED <<input_doc, req_types, min_confidence, normalized_entity_types,
                   output_file, map_file, restored_file, loaded, others>>

\* lines 100-101: save the document
AnonymizeSave ==
    /\ pc = "anonymizing" /\ para > Len(doc)
    /\ output_file' = <<doc>>
    /\ pc' = "document_saved"
    /\ UNCHANGED <<input_doc, req_types, min_confidence, doc, para,
                   normalized_entity_types, mapping, reverse_index, counters, raw,
                   map_file, restored_file, loaded, history, others>>

\* line 103: write the mapping
AnonymizeWriteMapping ==
    /\ pc = "document_saved"
    /\ map_file' = <<write_mapping(mapping)>>
    /\ pc' = "anonymized"
    /\ UNCHANGED <<input_doc, req_types, min_confidence, doc, para,
                   normalized_entity_types, mapping, reverse_index, counters, raw,
                   output_file, restored_file, loaded, history, others>>

\* line 103: writing the mapping raises (the path cannot be written)
AnonymizeWriteMappingFails ==
    /\ pc = "document_saved"
    /\ pc' = "anonymize_failed"
    /\ UNCHANGED <<input_doc, req_types, min_confidence, doc, para,
                   normalized_entity_types, mapping, reverse_index, counters, raw,
                   output_file, map_file, restored_file, loaded, history, others>>

\* a faulty test: no mapping is refused
NothingToRestoreNever(data) == FALSE

\* not mapping.placeholders  (line 125)
NothingToRestore(data) == data.placeholders = <<>>

\* the map_path deanonymize_docx is given: the written mapping, a path that
\* does not exist, a file that is no mapping
MapPaths == {map_file, <<>>, <<<<"garbage">>>>}

\* deanonymize_docx, lines 124-132: read the mapping, open the anonymized document
DeanonymizeStart ==
    /\ pc = "anonymized"
    /\ \E file \in MapPaths :
       \E got \in {read_mapping(file)} :
          IF got.status # "ok"
          THEN /\ pc' = "deanonymize_failed"
               /\ UNCHANGED <<doc, para, loaded>>
          ELSE IF NothingToRestore(got.mapping[1])
          THEN /\ pc' = "deanonymize_failed"
               /\ loaded' = got.mapping
               /\ UNCHANGED <<doc, para>>
          ELSE /\ pc' = "deanonymizing"
               /\ loaded' = got.mapping
               /\ doc' = output_file[1]
               /\ para' = 1
    /\ UNCHANGED <<input_doc, req_types, min_confidence, normalized_entity_types,
                   mapping, reverse_index, counters, raw, output_file, map_file,
                   restored_file, history, others>>

\* lines 134-145: one paragraph of the restoring loop
DeanonymizeParagraph ==
    /\ pc = "deanonymizing" /\ para <= Len(doc)
    /\ \E text \in {paragraph_text(doc[para])} :
       \E replacements \in {IF strip(text) = "" THEN <<>>
                            ELSE _placeholder_replacements(text, loaded[1].placeholders)} :
          doc' = IF replacements = <<>> THEN doc
                 ELSE [doc EXCEPT ![para] =
                          apply_replacements_to_paragraph(doc[para], replacements).runs]
    /\ para' = para + 1
    /\ UNCHANGED <<pc, input_doc, req_types, min_confidence, normalized_entity_types,
                   mapping, reverse_index, counters, raw, output_file, map_file,
                   restored_file, loaded, history, others>>

\* lines 147-148: save the restored document
DeanonymizeSave ==
    /\ pc = "deanonymizing" /\ para > Len(doc)
    /\ restored_file' = <<doc>>
    /\ pc' = "restored"
    /\ UNCHANGED <<input_doc, req_types, min_confidence, doc, para,
                   normalized_entity_types, mapping, reverse_index, counters, raw,
                   output_file, map_file, loaded, history, others>>

Next ==
    \/ AnonymizeStart
    \/ AnonymizeSkip
    \/ Detect
    \/ DetectFails
    \/ AnonymizeParagraph
    \/ AnonymizeSave
    \/ AnonymizeWriteMapping
    \/ AnonymizeWriteMappingFails
    \/ DeanonymizeStart
    \/ DeanonymizeParagraph
    \/ DeanonymizeSave

Spec == Init /\ [][Next]_vars

-----------------------------------------------------------------------------
(* Specification SpecAssign: the assignment of lines 83-96 late in a run,    *)
(* one entity at a time, when a label's counter is about to pass 999         *)

\* how many different PERSON texts the run has met so far
SeenBefore == {0, 998}

\* the text of the i-th PERSON met so far
SeenText(i) == "n" \o ToDecimal(i)

\* mapping.placeholders, reverse_index and counters after n different PERSON
\* texts were assigned (lines 84-93 taken n times)
AssignerAfter(n) ==
    [mapping |-> [i \in 1..n |-> [id |-> PlaceholderId("PERSON", i), label |-> "PERSON",
                                  original |-> SeenText(i)]],
     reverse_index |-> [key \in {<<"PERSON", SeenText(i)>> : i \in 1..n} |->
                           PlaceholderId("PERSON",
                               CHOOSE i \in 1..n : SeenText(i) = key[2])],
     counters |-> [t \in {"PERSON", "COMPANY"} |-> IF t = "PERSON" THEN n ELSE 0],
     replacements |-> <<>>]

\* entity texts: one met before and three new ones
AssignTexts == {"n1", "x", "y", "z"}

AssignInit ==
    /\ pc = "assigning"
    /\ \E n \in SeenBefore :
       \E st \in {AssignerAfter(n)} :
          /\ mapping = [create_empty EXCEPT !.placeholders = st.mapping]
          /\ reverse_index = st.reverse_index
          /\ counters = st.counters
    /\ normalized_entity_types = {"PERSON", "COMPANY"}
    /\ history = <<>>
    /\ input_doc = <<>> /\ req_types = <<>> /\ min_confidence = 0
    /\ doc = <<>> /\ para = 0 /\ raw = <<>>
    /\ output_file = <<>> /\ map_file = <<>> /\ restored_file = <<>> /\ loaded = <<>>
    /\ SelectIdle /\ SpliceIdle /\ StoreIdle /\ ScanIdle /\ DetectIdle

\* lines 82-96 for one entity that covers the whole text
Assign ==
    /\ pc = "assigning"
    /\ Len(history) < MaxAssignments
    /\ \E label \in normalized_entity_types, text \in AssignTexts :
       \E entity \in {[start |-> 0, end |-> Len(text), label |-> label, text |-> text,
                       confidence |-> 90]} :
       \E st \in {AssignOne(text, entity,
                    [mapping |-> mapping.placeholders, reverse_index |-> reverse_index,
                     counters |-> counters, replacements |-> <<>>])} :
          /\ mapping' = [mapping EXCEPT !.placeholders = st.mapping]
          /\ reverse_index' = st.reverse_index
          /\ counters' = st.counters
          /\ history' = Append(history,
                [para |-> 0, text |-> text, raw |-> <<entity>>, entities |-> <<entity>>,
                 replacements |-> st.replacements])
    /\ UNCHANGED <<pc, input_doc, req_types, min_confidence, doc, para,
                   normalized_entity_types, raw, output_file, map_file,
                   restored_file, loaded, others>>

AssignNext == Assign

SpecAssign == AssignInit /\ [][AssignNext]_vars

-----------------------------------------------------------------------------
(* Specification SpecDetect: CommandDetector.detect on the entries a backend *)
(* command returns for a paragraph                                          *)

DetTexts == {"ab", " "}

\* offsets as the backend may give them
DetStarts ==
    {[kind |-> "int", n |-> n] : n \in {-1, 0, 1}}
    \cup {[kind |-> k, n |-> 0] : k \in {"fraction", "Infinity", "text", "absent"}}
DetEnds ==
    {[kind |-> "int", n |-> n] : n \in 0..3}
    \cup {[kind |-> "fraction", n |-> 1], [kind |-> "Infinity", n |-> 0]}

\* labels as the backend may give them: the seven entity types, aliases, a
\* label in another case with blanks, an unknown label
DetRawLabels == VALID_ENTITY_TYPES \cup {"ORG", "LOCATION", " person ", "THING"}

\* entries: every shape of offsets with two labels, every label with good offsets
DetItems ==
    {[start |-> st, end |-> en, label |-> l] :
        st \in DetStarts, en \in DetEnds, l \in {"PERSON", "THING"}}
    \cup
    {[start |-> [kind |-> "int", n |-> 0], end |-> [kind |-> "int", n |-> e], label |-> l] :
        e \in {1, 2}, l \in DetRawLabels}

DetectInit ==
    /\ dt_text \in DetTexts
    /\ dt_entities_raw \in SeqUpTo(DetItems, MaxBackendItems)
    /\ dt_result = <<>>
    /\ dt_pc = "ready"
    /\ PipeIdle /\ SelectIdle /\ SpliceIdle /\ StoreIdle /\ ScanIdle

\* CommandDetector.detect(text) with the backend output entities_raw
DetectEntities ==
    /\ dt_pc = "ready"
    /\ dt_result' = <<detect(dt_text, dt_entities_raw)>>
    /\ dt_pc' = "done"
    /\ UNCHANGED <<dt_text, dt_entities_raw, pipeVars, selVars, spVars, stVars, scVars>>

DetectNext == DetectEntities

SpecDetect == DetectInit /\ [][DetectNext]_vars

-----------------------------------------------------------------------------
(* Properties of _select_entities, checked under SpecSelect *)

\* q is in ascending order of start
AscendingStart(q) == \A i \in 1..(Len(q) - 1) : q[i].start <= q[i + 1].start

\* no two elements of q satisfy a.start < b.end and b.start < a.end
PairwiseDisjoint(q) ==
    \A i, j \in 1..Len(q) :
        i # j => ~(q[i].start < q[j].end /\ q[j].start < q[i].end)

\* C3: the spans _select_entities returns are sorted by ascending start and no
\* two of them overlap; hence the replacements anonymize_docx builds from them
\* for the paragraph, one per selected span with the span's range, are pairwise
\* non-overlapping.
C3_SelectionSortedDisjoint ==
    sel_pc = "done" =>
        /\ AscendingStart(sel_result)
        /\ PairwiseDisjoint(sel_result)
        /\ Len(sel_replacements) = Len(sel_result)
        /\ \A i \in 1..Len(sel_result) :
              /\ sel_replacements[i].start = sel_result[i].start
              /\ sel_replacements[i].end = sel_result[i].end
        /\ PairwiseDisjoint(sel_replacements)

\* three qualifying candidates, two of them overlapping: two spans are selected
C3_Witness ==
    /\ sel_pc = "done"
    /\ Len(sel_entities) = 3
    /\ \A i \in 1..3 : Qualifies(sel_entities[i], sel_types, sel_min)
    /\ ~PairwiseDisjoint(sel_entities)
    /\ Len(sel_result) = 2
    /\ Len(sel_replacements) = 2

-----------------------------------------------------------------------------
(* Properties of apply_replacements_to_paragraph, checked under SpecSplice *)

\* the replacements are ranges of the text, 0 <= start < end <= len, no two of
\* which overlap
ValidReplacements(reps, n) ==
    /\ \A i \in 1..Len(reps) : 0 <= reps[i].start /\ reps[i].start < reps[i].end
                               /\ reps[i].end <= n
    /\ PairwiseDisjoint(reps)

\* what position p of the original text contributes to the rewritten text: the
\* replacement string of the range that starts at p, then the character at p
\* unless a range covers it
Piece(text, reps, p) ==
    LET starting == {i \in 1..Len(reps) : reps[i].start = p}
        covering == {i \in 1..Len(reps) : reps[i].start <= p /\ p < reps[i].end}
    IN (IF starting = {} THEN "" ELSE reps[CHOOSE i \in starting : TRUE].replacement)
       \o (IF covering = {} THEN Slice(text, p, p + 1) ELSE "")

\* the contributions of the positions from..(to - 1), joined
RECURSIVE Pieces(_, _, _, _)
Pieces(text, reps, from, to) ==
    IF from >= to THEN ""
    ELSE Piece(text, reps, from) \o Pieces(text, reps, from + 1, to)

\* C4: for pairwise non-overlapping replacements whose ranges lie within the
\* paragraph text, the concatenated run texts after the call are the original
\* text with each range replaced by its replacement string and every other
\* character kept, for every layout of the runs and every order of the list.
C4_TextIsSpliced ==
    (sp_pc = "done" /\ ValidReplacements(sp_reps, Len(paragraph_text(sp_runs)))) =>
        paragraph_text(sp_after) =
            Pieces(paragraph_text(sp_runs), sp_reps, 0, Len(paragraph_text(sp_runs)))

\* two ranges given left one first, in one run and across a run boundary
C4_Witness ==
    /\ sp_pc = "done"
    /\ ValidReplacements(sp_reps, Len(paragraph_text(sp_runs)))
    /\ Len(sp_reps) = 2
    /\ sp_reps[1].start < sp_reps[2].start
    /\ sp_reps[1].end <= Len(sp_runs[1].text)
    /\ sp_reps[2].start < Len(sp_runs[1].text)
    /\ sp_reps[2].end > Len(sp_runs[1].text)
    /\ paragraph_text(sp_after) # paragraph_text(sp_runs)

\* the offset in the paragraph text at which run i begins
OffsetOfRun(runs, i) == Len(paragraph_text(SubSeq(runs, 1, i - 1)))

\* run i of the paragraph intersects some non-empty range of the list
RunTouched(runs, reps, i) ==
    \E k \in 1..Len(reps) :
        /\ reps[k].start < reps[k].end
        /\ OffsetOfRun(runs, i) < reps[k].end
        /\ OffsetOfRun(runs, i + 1) > reps[k].start

\* C5: the call only rewrites run text: the runs are as many as before and every
\* run keeps its place and its formatting payload; a run that intersects no
\* replacement range keeps its text.
C5_OnlyTextRewritten ==
    sp_pc = "done" =>
        /\ Len(sp_after) = Len(sp_runs)
        /\ \A i \in 1..Len(sp_runs) :
              /\ sp_after[i].fmt = sp_runs[i].fmt
              /\ ~RunTouched(sp_runs, sp_reps, i) => sp_after[i].text = sp_runs[i].text

\* three runs: one rewritten, one with text left alone
C5_Witness ==
    /\ sp_pc = "done"
    /\ Len(sp_runs) = 3
    /\ \E i, j \in 1..3 :
          /\ sp_after[i].text # sp_runs[i].text
          /\ sp_runs[j].text # "" /\ ~RunTouched(sp_runs, sp_reps, j)
          /\ sp_after[j] = sp_runs[j]

\* the John Doe paragraph of the specification: run A bold, run B not
JohnDoe == <<[text |-> "John ", fmt |-> "bold"], [text |-> "Doe", fmt |-> "plain"]>>

\* C6: a replacement string is deposited once, in the run that holds the first
\* character of its range, after that run's text before the range; every run
\* keeps exactly its characters outside the ranges.  So "John " (bold) + "Doe"
\* becomes "PERSON_001" in the bold run and "" in the other.
C6_DepositedInFirstRun ==
    /\ apply_replacements_to_paragraph(JohnDoe,
           <<[start |-> 0, end |-> 8, replacement |-> "PERSON_001"]>>).runs
         = <<[text |-> "PERSON_001", fmt |-> "bold"], [text |-> "", fmt |-> "plain"]>>
    /\ (sp_pc = "done" /\ ValidReplacements(sp_reps, Len(paragraph_text(sp_runs)))) =>
          \A i \in 1..Len(sp_runs) :
              sp_after[i].text =
                  Pieces(paragraph_text(sp_runs), sp_reps,
                         OffsetOfRun(sp_runs, i), OffsetOfRun(sp_runs, i + 1))

\* one range that starts inside the first run and ends inside the third
C6_Witness ==
    /\ sp_pc = "done"
    /\ Len(sp_runs) = 3 /\ Len(sp_reps) = 1
    /\ \A i \in 1..3 : sp_runs[i].text # ""
    /\ sp_reps[1].start > 0 /\ sp_reps[1].start < Len(sp_runs[1].text)
    /\ sp_reps[1].end > Len(sp_runs[1].text) + Len(sp_runs[2].text)
    /\ sp_reps[1].end < Len(paragraph_text(sp_runs))
    /\ sp_reps[1].replacement = "XY"
    /\ sp_after[2].text = ""

-----------------------------------------------------------------------------
(* Properties of the encrypted mapping store, checked under SpecStore *)

\* the last operation on the path was a read of a file as
\* write_encrypted_mapping wrote it
ReadAfterWrite == st_written # <<>> /\ st_written[1].intact /\ st_result # <<>>

\* C9: reading an encrypted mapping with a password other than the one it was
\* written with raises the store's error and returns no MappingData.
C9_WrongPasswordFails ==
    (ReadAfterWrite /\ st_result[1].password # st_written[1].password) =>
        /\ st_result[1].outcome.status = "MappingStoreError"
        /\ st_result[1].outcome.mapping = <<>>

\* a mapping with placeholders written under one password, read under another
C9_Witness ==
    /\ ReadAfterWrite
    /\ st_written[1].mapping.placeholders # <<>>
    /\ st_written[1].password = "correct"
    /\ st_result[1].password = "incorrect"
    /\ st_result[1].outcome.status = "MappingStoreError"

\* C10: reading an encrypted mapping with the password it was written with
\* returns a MappingData whose placeholders equal the ones written.
C10_SamePasswordRoundTrip ==
    (ReadAfterWrite /\ st_result[1].password = st_written[1].password) =>
        /\ st_result[1].outcome.status = "ok"
        /\ Len(st_result[1].outcome.mapping) = 1
        /\ st_result[1].outcome.mapping[1].placeholders
              = st_written[1].mapping.placeholders

\* two placeholders written and read back under the same password
C10_Witness ==
    /\ ReadAfterWrite
    /\ Len(st_written[1].mapping.placeholders) = 2
    /\ st_result[1].password = st_written[1].password
    /\ st_result[1].outcome.status = "ok"
    /\ Len(st_result[1].outcome.mapping[1].placeholders) = 2

-----------------------------------------------------------------------------
(* Properties of anonymize_docx followed by deanonymize_docx, checked under *)
(* Spec                                                                     *)

\* the texts of the runs of a paragraph
RunTextsOf(runs) == [i \in 1..Len(runs) |-> runs[i].text]

\* C1: after anonymize_docx and deanonymize_docx with the mapping anonymize_docx
\* wrote, the concatenated run text of every paragraph equals that paragraph's
\* text in the original document.
C1_RoundTripText ==
    pc = "restored" =>
        /\ Len(restored_file[1]) = Len(input_doc)
        /\ \A p \in 1..Len(input_doc) :
              paragraph_text(restored_file[1][p]) = paragraph_text(input_doc[p])

\* the occurrences replaced so far: (history entry, index of the entity in it)
Occurred == {x \in (1..Len(history)) \X (1..MaxDetected) : x[2] <= Len(history[x[1]].entities)}

\* the (label, exact original text) pair of an occurrence
PairOf(x) ==
    <<history[x[1]].entities[x[2]].label,
      Slice(history[x[1]].text, history[x[1]].entities[x[2]].start,
            history[x[1]].entities[x[2]].end)>>

\* the placeholder id an occurrence was replaced by
IdOf(x) == history[x[1]].replacements[x[2]].replacement

\* the entries the mapping holds for a (label, original) pair
EntriesFor(pair) ==
    {i \in 1..Len(mapping.placeholders) :
        /\ mapping.placeholders[i].label = pair[1]
        /\ mapping.placeholders[i].original = pair[2]}

\* C2: within one anonymize_docx run, all occurrences of one (label, exact
\* original text) pair, in one paragraph or in several, are replaced by the same
\* placeholder id, and the mapping holds exactly one entry for the pair, under
\* that id.
C2_StablePlaceholders ==
    /\ \A x, y \in Occurred : PairOf(x) = PairOf(y) => IdOf(x) = IdOf(y)
    /\ \A x \in Occurred :
          /\ Cardinality(EntriesFor(PairOf(x))) = 1
          /\ \A i \in EntriesFor(PairOf(x)) : mapping.placeholders[i].id = IdOf(x)

\* one pair replaced twice in the first paragraph and once more in the second
C2_Witness ==
    /\ pc = "anonymized"
    /\ Len(history) = 2
    /\ Len(history[1].entities) = 2
    /\ PairOf(<<1, 1>>) = PairOf(<<1, 2>>)
    /\ \E x \in Occurred : x[1] = 2 /\ PairOf(x) = PairOf(<<1, 1>>)
                           /\ IdOf(x) = "PERSON_001"
    /\ Len(mapping.placeholders) = 1

\* paragraph p had an entity span replaced that lies in more than one run
SplitSpan(p) ==
    \E k \in 1..Len(history) :
        /\ history[k].para = p
        /\ \E j \in 1..Len(history[k].replacements) :
              \E i \in 1..Len(input_doc[p]) :
                  /\ history[k].replacements[j].start < OffsetOfRun(input_doc[p], i)
                  /\ OffsetOfRun(input_doc[p], i) < history[k].replacements[j].end

\* C7: anonymizing and then restoring an entity span that is split across runs
\* gives every run of the paragraph back its original text, not only the same
\* concatenated text.
C7_RunsRestored ==
    pc = "restored" =>
        \A p \in 1..Len(input_doc) :
            SplitSpan(p) => RunTextsOf(restored_file[1][p]) = RunTextsOf(input_doc[p])

\* the spans of the candidates of a paragraph whose text is a role label
RoleSpans(h) ==
    {<<h.raw[i].start, h.raw[i].end>> : i \in
        {j \in 1..Len(h.raw) : _is_legal_role_label(h.raw[j].text)}}

\* the candidates of a paragraph that are not role labels, in the detector's order
RECURSIVE WithoutRoles(_)
WithoutRoles(q) ==
    IF q = <<>> THEN <<>>
    ELSE IF _is_legal_role_label(Head(q).text) THEN WithoutRoles(Tail(q))
    ELSE <<Head(q)>> \o WithoutRoles(Tail(q))

\* C8: a candidate whose text is "THE " and a legal role word, ignoring case, is
\* never selected; the text of its span stays in the anonymized paragraph (no
\* replacement of the paragraph touches the span); the other candidates are
\* selected and replaced as they are without it.
C8_RoleLabelStays ==
    \A k \in 1..Len(history) :
        /\ \A i \in 1..Len(history[k].entities) :
              ~_is_legal_role_label(history[k].entities[i].text)
        /\ \A span \in RoleSpans(history[k]) :
              \A j \in 1..Len(history[k].replacements) :
                  \/ history[k].replacements[j].end <= span[1]
                  \/ span[2] <= history[k].replacements[j].start
        /\ history[k].entities =
              _select_entities(WithoutRoles(history[k].raw), normalized_entity_types,
                               min_confidence)

-----------------------------------------------------------------------------
(* Properties of loading a mapping, checked under SpecStore *)

\* the path does not exist, or what it holds is not parseable as the structured
\* record: the file itself, or the text it decrypts to under the password
Unloadable(file, password) ==
    \/ file = <<>>
    \/ file[1] \in UnparseableContents
    \/ \E t \in UnparseablePlaintexts : file[1] = EncryptedFile(t, password, "salt-1")

\* C11: loading a mapping from a path that does not exist, or whose content is
\* not parseable as the expected structured record, fails with the store's
\* error and returns no mapping.
C11_UnloadableRaisesStoreError ==
    (st_result # <<>> /\ Unloadable(st_file, st_result[1].password)) =>
        /\ st_result[1].outcome.status = "MappingStoreError"
        /\ st_result[1].outcome.mapping = <<>>

\* the read failed to authenticate: the password is not the written one, or the
\* ciphertext of the written file was corrupted
AuthenticationFailed ==
    /\ st_written # <<>> /\ st_result # <<>>
    /\ (st_result[1].password # st_written[1].password \/ ~st_written[1].intact)

\* C12: the error raised when decryption fails to authenticate is of another
\* kind than the error raised for a missing or unparseable file.
C12_IntegrityErrorDistinct ==
    AuthenticationFailed =>
        /\ st_result[1].outcome.status # "ok"
        /\ st_result[1].outcome.status
              # read_encrypted_mapping(<<>>, st_result[1].password).status
        /\ st_result[1].outcome.status
              # read_encrypted_mapping(<<<<"garbage">>>>, st_result[1].password).status

-----------------------------------------------------------------------------
(* Properties of failing calls, checked under Spec *)

\* C13: a call of anonymize_docx or deanonymize_docx that fails (the detector
\* fails on a paragraph, reading or writing the mapping fails) has written
\* nothing: neither the output document nor the mapping file.
C13_FailedCallWritesNothing ==
    /\ pc = "anonymize_failed" => (output_file = <<>> /\ map_file = <<>>)
    /\ pc = "deanonymize_failed" => restored_file = <<>>

-----------------------------------------------------------------------------
(* Further properties of apply_replacements_to_paragraph, checked under     *)
(* SpecSplice                                                               *)

\* two non-empty ranges of the list overlap
SomeOverlap(reps) ==
    \E i, j \in 1..Len(reps) :
        /\ i # j
        /\ reps[i].start < reps[i].end /\ reps[j].start < reps[j].end
        /\ reps[i].start < reps[j].end /\ reps[j].start < reps[i].end

\* C14: given a replacement list in which two ranges overlap, the call is
\* rejected and leaves every run text unchanged (and reports no change).
C14_OverlapRejected ==
    (sp_pc = "done" /\ SomeOverlap(sp_reps)) =>
        /\ RunTextsOf(sp_after) = RunTextsOf(sp_runs)
        /\ sp_changed = 0

\* the runs whose text after the call differs from their text before it
RunsChanged == {i \in 1..Len(sp_runs) : sp_after[i].text # sp_runs[i].text}

\* C15: the integer apply_replacements_to_paragraph returns is the number of
\* runs whose text after the call differs from their text before it, each run
\* counted once however many replacements of the batch rewrote it.
C15_CountsChangedRuns ==
    (sp_pc = "done" /\ ValidReplacements(sp_reps, Len(paragraph_text(sp_runs)))) =>
        sp_changed = Cardinality(RunsChanged)

-----------------------------------------------------------------------------
(* Properties of _placeholder_replacements, checked under SpecScan *)

ScanText == Join(sc_words)

\* offset of the k-th word in the scanned text
WordStart(k) == Len(Join(SubSeq(sc_words, 1, k - 1)))

\* LABEL_ followed by at least three decimal digits
PlaceholderShaped(w) ==
    \E label \in VALID_ENTITY_TYPES :
        /\ startswith(w, label \o "_")
        /\ Len(w) >= Len(label) + 4
        /\ IsDecimal(SliceFrom(w, Len(label) + 1))

\* the replacement covers a literal occurrence of a key and carries that
\* key's original
CoversKey(r) ==
    \E k \in 1..Len(sc_placeholders) :
        /\ Slice(ScanText, r.start, r.end) = sc_placeholders[k].id
        /\ r.replacement = sc_placeholders[k].original

\* some replacement rewrites characters of the k-th word
WordReplaced(k) ==
    \E i \in 1..Len(sc_result) :
        /\ sc_result[i].start < WordStart(k + 1)
        /\ WordStart(k) < sc_result[i].end

\* C16: for any text and mapping the replacements are in ascending start
\* order, pairwise non-overlapping, each covers a literal occurrence of a key
\* of the mapping and carries that key's original; a placeholder-shaped token
\* of the text that is not a key of the mapping is never replaced.
C16_ScanReplacesOnlyKeys ==
    sc_pc = "done" =>
        /\ AscendingStart(sc_result)
        /\ PairwiseDisjoint(sc_result)
        /\ \A i \in 1..Len(sc_result) : CoversKey(sc_result[i])
        /\ \A k \in 1..Len(sc_words) :
               (PlaceholderShaped(sc_words[k]) /\ sc_words[k] \notin DictKeys(sc_placeholders))
                   => ~WordReplaced(k)

-----------------------------------------------------------------------------
(* Placeholder numbering, checked under Spec *)

\* occurrence x was replaced no later than occurrence y
NotAfter(x, y) == x[1] < y[1] \/ (x[1] = y[1] /\ x[2] <= y[2])

\* the first occurrence of the pair of x
FirstSighting(x) ==
    CHOOSE f \in Occurred :
        /\ PairOf(f) = PairOf(x)
        /\ \A y \in Occurred : PairOf(y) = PairOf(x) => NotAfter(f, y)

\* the pairs of the label of x sighted up to the first sighting of x's pair
SightedUpTo(x) ==
    {PairOf(y) : y \in {z \in Occurred : /\ PairOf(z)[1] = PairOf(x)[1]
                                        /\ NotAfter(z, FirstSighting(x))}}

\* label_001 ... label_009 written out
NumberedId(label, n) == label \o "_00" \o SubSeq("123456789", n, n)

\* the pairs of a label replaced so far
PairsOfLabel(label) == {PairOf(y) : y \in {z \in Occurred : PairOf(z)[1] = label}}

\* C17: within one anonymize run the n-th new (label, text) pair of a label, in
\* order of first sighting, gets the id label_00n, and the label's counter is
\* the number of its pairs sighted so far, whatever was assigned for other
\* labels.
C17_NumberedPerLabel ==
    /\ \A x \in Occurred : IdOf(x) = NumberedId(PairOf(x)[1], Cardinality(SightedUpTo(x)))
    /\ \A label \in DOMAIN counters : counters[label] = Cardinality(PairsOfLabel(label))

\* a COMPANY pair is assigned between the first and the second PERSON pair
C17_Witness ==
    /\ pc = "anonymized"
    /\ Len(mapping.placeholders) = 3
    /\ mapping.placeholders[1].id = "PERSON_001"
    /\ mapping.placeholders[2].id = "COMPANY_001"
    /\ mapping.placeholders[3].id = "PERSON_002"

-----------------------------------------------------------------------------
(* Further properties of _select_entities, checked under SpecSelect *)

SpansOf(q) == {q[i] : i \in 1..Len(q)}

\* C19: every span _select_entities returns is one of the input candidates,
\* its label is in the allowed set, its confidence is at least min_confidence
\* and its end is greater than its start; a lone candidate whose confidence
\* equals the threshold is accepted; an empty candidate list gives an empty
\* selection.
C19_SelectedPassFilter ==
    sel_pc = "done" =>
        /\ \A i \in 1..Len(sel_result) :
              /\ sel_result[i] \in SpansOf(sel_entities)
              /\ sel_result[i].label \in sel_types
              /\ sel_result[i].confidence >= sel_min
              /\ sel_result[i].end > sel_result[i].start
        /\ (/\ Len(sel_entities) = 1
            /\ sel_entities[1].label \in sel_types
            /\ sel_entities[1].confidence = sel_min
            /\ sel_entities[1].end > sel_entities[1].start
            /\ sel_entities[1].text = SelPlainText) => sel_result = sel_entities
        /\ sel_entities = <<>> => sel_result = <<>>

\* a candidate at the threshold is selected while a candidate of another
\* label, one below the threshold and an empty span are around
C19_Witness ==
    /\ sel_pc = "done"
    /\ Len(sel_entities) = 3
    /\ \E i \in 1..Len(sel_result) : sel_result[i].confidence = sel_min
    /\ \E k \in 1..Len(sel_entities) :
          sel_entities[k].label \notin sel_types /\ sel_entities[k].confidence >= sel_min
    /\ \E k \in 1..Len(sel_entities) :
          sel_entities[k].label \in sel_types /\ sel_entities[k].confidence < sel_min

\* the candidates the filter keeps
Survivors ==
    {e \in SpansOf(sel_entities) :
        /\ e.label \in sel_types
        /\ e.confidence >= sel_min
        /\ e.end > e.start
        /\ ~_is_legal_role_label(e.text)}

\* a comes before b in the ranking: higher confidence; on a tie the longer
\* span; on a tie the earlier start
Precedes(a, b) ==
    \/ a.confidence > b.confidence
    \/ /\ a.confidence = b.confidence
       /\ a.end - a.start > b.end - b.start
    \/ /\ a.confidence = b.confidence
       /\ a.end - a.start = b.end - b.start
       /\ a.start < b.start

CharOverlap(a, b) == a.start < b.end /\ b.start < a.end

C21_OrderIndependent ==
    sel_pc = "permuted" => sel_again = sel_result

-----------------------------------------------------------------------------
(* Placeholder ids past 999 and the growth of the mapping, checked under    *)
(* SpecAssign                                                               *)

\* the id the mapping holds for a (label, original) pair, if any
IdsFor(label, original) ==
    {mapping.placeholders[i].id : i \in EntriesFor(<<label, original>>)}

\* the (label, original) pairs of the mapping
MappedPairs ==
    {<<mapping.placeholders[i].label, mapping.placeholders[i].original>> :
        i \in 1..Len(mapping.placeholders)}

\* C22: two different (label, original text) pairs never get the same
\* placeholder id in one run, also when a label's counter passes 999: every
\* pair assigned so far is in the mapping under the id it was replaced by, the
\* mapping holds as many ids and as many pairs as the counters have counted,
\* and the id minted for counter 1000 is label_1000.
C22_IdsNeverCollide ==
    /\ \A x, y \in Occurred : PairOf(x) # PairOf(y) => IdOf(x) # IdOf(y)
    /\ \A x \in Occurred : IdsFor(PairOf(x)[1], PairOf(x)[2]) = {IdOf(x)}
    /\ Cardinality(DictKeys(mapping.placeholders)) = Len(mapping.placeholders)
    /\ Cardinality(MappedPairs) = Len(mapping.placeholders)
    /\ Len(mapping.placeholders) = counters["PERSON"] + counters["COMPANY"]
    /\ counters["PERSON"] >= 1000 => "PERSON_1000" \in DictKeys(mapping.placeholders)

\* the PERSON counter went from 998 to 1001
C22_Witness ==
    /\ counters["PERSON"] = 1001
    /\ Len(history) = 3
    /\ IdOf(<<1, 1>>) = "PERSON_999"
    /\ IdOf(<<2, 1>>) = "PERSON_1000"
    /\ IdOf(<<3, 1>>) = "PERSON_1001"
    /\ "PERSON_001" \in DictKeys(mapping.placeholders)


\* the (label, original) pair the step assigns
AssignedPair ==
    <<history'[Len(history')].entities[1].label, history'[Len(history')].text>>

\* C23: during a run the mapping only grows: every step keeps the entries
\* the mapping holds, with their ids, labels and originals, in place, and a
\* step that assigns a pair the mapping already holds changes neither the
\* counters nor the mapping.
C23_MappingOnlyGrows ==
    [][/\ Len(mapping'.placeholders) >= Len(mapping.placeholders)
       /\ SubSeq(mapping'.placeholders, 1, Len(mapping.placeholders)) = mapping.placeholders
       /\ (Len(history') = Len(history) + 1 /\ AssignedPair \in MappedPairs)
              => (counters' = counters /\ mapping' = mapping)]_vars

\* a new pair was assigned, then the same pair again, then a pair of an
\* earlier paragraph, and the mapping grew by the one entry
C23_Witness ==
    /\ Len(history) = 3
    /\ PairOf(<<1, 1>>) = <<"PERSON", "x">>
    /\ PairOf(<<2, 1>>) = <<"PERSON", "x">>
    /\ PairOf(<<3, 1>>) = <<"PERSON", "n1">>
    /\ IdOf(<<3, 1>>) = "PERSON_001"
    /\ Len(mapping.placeholders) = 999
    /\ counters["PERSON"] = 999

-----------------------------------------------------------------------------
(* Ids that contain other ids, checked under SpecScan *)

\* the original the mapping holds for an id
OriginalOf(id) ==
    sc_placeholders[CHOOSE k \in 1..Len(sc_placeholders) : sc_placeholders[k].id = id].original

\* the words of the text that are the longer id
LongerWords == {k \in 1..Len(sc_words) : sc_words[k] = "PERSON_1000"}

\* the k-th word is replaced as a whole by the given text
RestoredTo(k, original) ==
    \E i \in 1..Len(sc_result) :
        /\ sc_result[i].start = WordStart(k)
        /\ sc_result[i].end = WordStart(k + 1)
        /\ sc_result[i].replacement = original

\* some replacement covers the k-th word only in part
MatchedInPart(k) ==
    \E i \in 1..Len(sc_result) :
        /\ sc_result[i].start < WordStart(k + 1)
        /\ WordStart(k) < sc_result[i].end
        /\ ~(sc_result[i].start = WordStart(k) /\ sc_result[i].end = WordStart(k + 1))

\* C24: when the mapping holds PERSON_100 and PERSON_1000, every occurrence
\* of PERSON_1000 in the text is restored to the original of PERSON_1000 (an
\* entry without original has nothing to restore) and is never matched as
\* PERSON_100.
C24_LongerIdWins ==
    (sc_pc = "done" /\ {"PERSON_100", "PERSON_1000"} \subseteq DictKeys(sc_placeholders)) =>
        \A k \in LongerWords :
            /\ OriginalOf("PERSON_1000") # "" => RestoredTo(k, OriginalOf("PERSON_1000"))
            /\ ~MatchedInPart(k)

-----------------------------------------------------------------------------
(* Refused calls, checked under Spec *)

\* entity_types is empty or names a type outside the enumeration
BadEntityTypes ==
    \/ req_types = <<>>
    \/ \E i \in 1..Len(req_types) : upper(strip(req_types[i])) \notin VALID_ENTITY_TYPES

\* C25: anonymize_docx called with an empty entity-type list, or with a type
\* that after trimming and upper-casing is outside the enumeration, fails
\* before the input document is read, the detector is called or any file is
\* written.
C25_BadTypesFailFirst ==
    (pc # "start" /\ BadEntityTypes) =>
        /\ pc = "anonymize_failed"
        /\ doc = <<>>
        /\ raw = <<>> /\ history = <<>>
        /\ output_file = <<>> /\ map_file = <<>> /\ restored_file = <<>>

\* a call with an unsupported type has failed
C25_Witness ==
    /\ pc = "anonymize_failed"
    /\ req_types = <<"NAME">>
    /\ input_doc # <<>>


\* C27: deanonymize_docx with a mapping whose placeholders dictionary is empty
\* fails before the input document is opened and writes no output document,
\* also when that mapping was written by an anonymize_docx run that selected
\* no entity: the restoring loop is entered only with a non-empty mapping.
C27_EmptyMappingRefused ==
    /\ (loaded # <<>> /\ loaded[1].placeholders = <<>>) =>
          /\ pc = "deanonymize_failed"
          /\ para > Len(doc)
          /\ restored_file = <<>>
    /\ ~(mapping.placeholders = <<>> /\ pc \in {"deanonymizing", "restored"})

\* the mapping of a run that selected nothing, although a candidate was
\* detected, was read back and refused
C27_Witness ==
    /\ pc = "deanonymize_failed"
    /\ loaded # <<>> /\ loaded[1].placeholders = <<>>
    /\ mapping.placeholders = <<>>
    /\ map_file # <<>> /\ output_file # <<>>
    /\ \E k \in 1..Len(history) : history[k].raw # <<>>

-----------------------------------------------------------------------------
(* Properties of CommandDetector.detect, checked under SpecDetect *)

\* the entry has integer offsets within the text and a label the detector
\* recognizes
WellFormed(item) ==
    /\ item.start.kind = "int" /\ item.end.kind = "int"
    /\ 0 <= item.start.n /\ item.start.n < item.end.n /\ item.end.n <= Len(dt_text)
    /\ _normalize_label(item.label) # <<>>

\* the (start, end) offsets of the well-formed entries of the backend output
WellFormedOffsets ==
    {<<dt_entities_raw[k].start.n, dt_entities_raw[k].end.n>> :
        k \in {j \in 1..Len(dt_entities_raw) : WellFormed(dt_entities_raw[j])}}

\* C26: every entity the command detector passes on has offsets with
\* 0 <= start < end <= len(text) and a label of the enumeration; an entry with
\* non-integer offsets, out-of-range offsets or an unrecognized label is
\* dropped, which neither fails the detection nor removes the well-formed
\* entries.
C26_MalformedDropped ==
    (dt_pc = "done" /\ strip(dt_text) # "") =>
        /\ dt_result[1].status = "ok"
        /\ \A i \in 1..Len(dt_result[1].entities) :
              /\ 0 <= dt_result[1].entities[i].start
              /\ dt_result[1].entities[i].start < dt_result[1].entities[i].end
              /\ dt_result[1].entities[i].end <= Len(dt_text)
              /\ dt_result[1].entities[i].label \in VALID_ENTITY_TYPES
        /\ {<<dt_result[1].entities[i].start, dt_result[1].entities[i].end>> :
               i \in 1..Len(dt_result[1].entities)} = WellFormedOffsets

\* C28: each of the seven valid entity types, given as the label of a
\* well-formed backend entry, is kept by the detector with that same type.
C28_EveryTypeKept ==
    (dt_pc = "done" /\ strip(dt_text) # "" /\ dt_result[1].status = "ok") =>
        \A k \in 1..Len(dt_entities_raw) :
            (/\ dt_entities_raw[k].label \in VALID_ENTITY_TYPES
             /\ dt_entities_raw[k].start.kind = "int" /\ dt_entities_raw[k].end.kind = "int"
             /\ 0 <= dt_entities_raw[k].start.n
             /\ dt_entities_raw[k].start.n < dt_entities_raw[k].end.n
             /\ dt_entities_raw[k].end.n <= Len(dt_text)) =>
                \E i \in 1..Len(dt_result[1].entities) :
                    /\ dt_result[1].entities[i].start = dt_entities_raw[k].start.n
                    /\ dt_result[1].entities[i].end = dt_entities_raw[k].end.n
                    /\ dt_result[1].entities[i].label = dt_entities_raw[k].label

====
